---- MODULE Spec2Model ----
(***************************************************************************)
(* The analysis pipeline of the AI Portfolio Intelligence Platform:        *)
(* tools.py (the five tools over the module-global DATA_STATE) and         *)
(* agents.py (PortfolioAnalysisAgent.run_manual / run_hybrid /             *)
(* run_autonomous).                                                        *)
(*                                                                         *)
(* Text is modelled as tuples of characters (ticker strings) and tuples of *)
(* fields (result strings); floats as scaled integers:                     *)
(*   returns statistics in 1e-6, sharpe/beta/change_pct/score inputs in    *)
(*   1e-2, composite scores in 1e-3.                                       *)
(***************************************************************************)
EXTENDS Integers, Sequences, FiniteSets, TLC

\* ------------------------------------------------------------------ bounds
\* Largest number of comma-separated entries in a `tickers` argument.
MaxTickers == 2
\* Largest number of state-changing tool calls the language model requests
\* during one Autonomous invocation (compare_portfolio is not counted).
MaxAutoCalls == 2

\* ------------------------------------------------------- program constants
\* recursion_limit passed to self.app.stream
RecursionLimit == 15
\* the graph library's default recursion limit, in force for self.app.invoke
DefaultRecursionLimit == 25
\* len(returns) < 30 -> "Insufficient data"
MinReturns == 30
\* np.sqrt(252), in 1e-2
Sqrt252 == 1587
\* risk_free_rate / 252 = 0.02 / 252, in 1e-6
RiskFreeDaily == 79
\* Prophet and linear-regression weights of the ensemble, in 1e-1
ProphetWeight == 7
LinearWeight == 3
\* sharpe and change_pct weights of the composite score, in 1e-1
SharpeWeight == 5
ForecastWeight == 1
\* str(content)[:300], str(e)[:50]
StepTruncate == 300
ErrTruncate == 50
\* config.DEFAULT_FORECAST_DAYS and the forecast_days default of run_manual
DefaultForecastDays == 60

\* ------------------------------------------------------------ text helpers
\* str.upper() on one character of the model's alphabet
UpperChar(c) ==
    CASE c = "a" -> "A"
      [] c = "b" -> "B"
      [] OTHER -> c

\* str.upper()
Upper(s) == [j \in 1..Len(s) |-> UpperChar(s[j])]

RECURSIVE LStrip(_)
LStrip(s) == IF s # <<>> /\ Head(s) = " " THEN LStrip(Tail(s)) ELSE s

RECURSIVE RStrip(_)
RStrip(s) ==
    IF s # <<>> /\ s[Len(s)] = " " THEN RStrip(SubSeq(s, 1, Len(s) - 1)) ELSE s

\* str.strip()
Strip(s) == RStrip(LStrip(s))

\* str.split(','): the list of fields, cur being the field read so far
RECURSIVE SplitFrom(_, _)
SplitFrom(s, cur) ==
    IF s = <<>> THEN <<cur>>
    ELSE IF Head(s) = "," THEN <<cur>> \o SplitFrom(Tail(s), <<>>)
    ELSE SplitFrom(Tail(s), Append(cur, Head(s)))

Split(s) == SplitFrom(s, <<>>)

\* [t.strip().upper() for t in tickers.split(',')]
TickerList(tickers) ==
    LET parts == Split(tickers)
    IN  [j \in 1..Len(parts) |-> Upper(Strip(parts[j]))]

\* ------------------------------------------------------------------- dicts
\* A Python dict: a sequence of [k, v] entries with distinct keys, in
\* insertion order.
EmptyDict == <<>>

Keys(d) == {d[j].k : j \in 1..Len(d)}

KeyList(d) == [j \in 1..Len(d) |-> d[j].k]

Has(d, k) == k \in Keys(d)

Get(d, k) == (CHOOSE j \in 1..Len(d) : d[j].k = k)

Lookup(d, k) == d[Get(d, k)].v

\* d[k] = v: a present key keeps its position, a new key goes last
Put(d, k, v) ==
    IF Has(d, k)
    THEN [j \in 1..Len(d) |-> IF d[j].k = k THEN [k |-> k, v |-> v] ELSE d[j]]
    ELSE Append(d, [k |-> k, v |-> v])

\* The value DATA_STATE is bound to at import and by reset_state()
EmptyState ==
    [portfolio |-> EmptyDict, forecasts |-> EmptyDict,
     risk_metrics |-> EmptyDict, sentiment |-> EmptyDict]

\* ------------------------------------------------- the external environment
\* What yf.download can hand back: a frame described by the statistics of its
\* Close column that the tools read (rows; mean, std and 5th percentile of the
\* daily returns and their covariance with the benchmark, in 1e-6; the last
\* close and the linear-regression projection at the horizon).
GoodFrame ==
    [rows |-> 253, mean |-> 579, std |-> 10000, p5 |-> -16000, cov |-> 120,
     last |-> 100, lr |-> 100]

\* a frame with 29 return observations
ShortFrame ==
    [rows |-> 30, mean |-> 579, std |-> 10000, p5 |-> -16000, cov |-> 120,
     last |-> 100, lr |-> 100]

\* df.empty
NoFrame ==
    [rows |-> 0, mean |-> 0, std |-> 0, p5 |-> 0, cov |-> 0, last |-> 0, lr |-> 0]

\* a frame whose Close column is constant: every return is 0
FlatFrame ==
    [rows |-> 253, mean |-> 0, std |-> 0, p5 |-> 0, cov |-> 0, last |-> 100,
     lr |-> 100]

DataFrames == {GoodFrame, ShortFrame, FlatFrame, NoFrame}

\* One yf.download(ticker) call: a frame, or an exception with its message
FetchOutcomes ==
    [kind : {"frame"}, df : DataFrames, msg : {"none"}]
    \cup [kind : {"raise"}, df : {NoFrame}, msg : {"timeout"}]

\* The SPY download and spy['Close'].pct_change().dropna(): the number of
\* benchmark returns and their variance (1e-6), or an exception
SpyOutcomes ==
    {[kind |-> "raise", n |-> 0, var |-> 0],
     [kind |-> "series", n |-> 500, var |-> 100],
     [kind |-> "series", n |-> 500, var |-> 0],
     [kind |-> "series", n |-> 0, var |-> 0]}

\* Prophet: m.fit raises, or forecast.iloc[-days:]['yhat'] ends at yhat
ProphetOutcomes ==
    [kind : {"yhat"}, yhat : {90, 100, 110}] \cup [kind : {"raise"}, yhat : {0}]

\* random.uniform(-0.5, 0.5), in 1e-2
SentimentScores == {-25, 25}

\* len(df): reset_index keeps the rows
DfLen(df) == df.rows

\* len(close_prices.pct_change().dropna())
NumReturns(df) == IF df.rows > 0 THEN df.rows - 1 ELSE 0

\* s[:n]
Prefix(s, n) == <<"prefix", n, s>>

\* A result string is a tuple whose first field is its fixed leading text; a
\* fixed message is that text alone
Text(s) == <<s>>

\* what a tool call hands back: a returned value or a raised exception
Returned(ds, val) == [ds |-> ds, raised |-> FALSE, val |-> val]

Raised(ds, msg) == [ds |-> ds, raised |-> TRUE, val |-> msg]

\* --------------------------------------------------------------- tools.py
\* reset_state() leaving the sentiment scores in place
reset_state_keeps_sentiment(previous) ==
    [EmptyState EXCEPT !.sentiment = previous.sentiment]

\* reset_state() leaving the downloaded frames in place
reset_state_keeps_portfolio(previous) ==
    [EmptyState EXCEPT !.portfolio = previous.portfolio]

\* reset_state(): DATA_STATE, which named `previous`, is rebound to a new dict
\* of four empty dicts
reset_state(previous) == EmptyState

\* the loop of fetch_portfolio_data giving up after the first failed ticker
FetchOneStopsAfterFailure(acc, ticker, out) ==
    IF acc.results # <<>> /\ acc.results[Len(acc.results)][1] = "FAIL" THEN acc
    ELSE IF out.kind = "raise"
    THEN [ds |-> acc.ds,
          results |-> Append(acc.results, <<"FAIL", ticker, Prefix(out.msg, ErrTruncate)>>)]
    ELSE IF out.df.rows > 0
    THEN [ds |-> [acc.ds EXCEPT !.portfolio = Put(@, ticker, out.df)],
          results |-> Append(acc.results, <<"OK", ticker, DfLen(out.df), "data points">>)]
    ELSE [ds |-> acc.ds,
          results |-> Append(acc.results, <<"FAIL", ticker, Text("No data available")>>)]

\* the body of the for loop of fetch_portfolio_data for ticker_list[j], on
\* the accumulator [ds, results]
FetchOne(acc, ticker, out) ==
    IF out.kind = "raise"
    THEN [ds |-> acc.ds,
          results |-> Append(acc.results, <<"FAIL", ticker, Prefix(out.msg, ErrTruncate)>>)]
    ELSE IF out.df.rows > 0
    THEN [ds |-> [acc.ds EXCEPT !.portfolio = Put(@, ticker, out.df)],
          results |-> Append(acc.results, <<"OK", ticker, DfLen(out.df), "data points">>)]
    ELSE [ds |-> acc.ds,
          results |-> Append(acc.results, <<"FAIL", ticker, Text("No data available")>>)]

RECURSIVE FetchLoop(_, _, _, _)
FetchLoop(acc, ticker_list, outs, j) ==
    IF j > Len(ticker_list) THEN acc
    ELSE FetchLoop(FetchOne(acc, ticker_list[j], outs[j]), ticker_list, outs, j + 1)

\* fetch_portfolio_data(tickers): outs[j] is what the j-th download does
fetch_portfolio_data(ds, tickers, outs) ==
    LET ticker_list == TickerList(tickers)
        acc == FetchLoop([ds |-> ds, results |-> <<>>], ticker_list, outs, 1)
    IN  Returned(acc.ds, <<"FETCH", acc.results>>)

\* np.sqrt(252) * excess_returns.mean() / std_dev if std_dev > 0 else 0 (1e-2)
SharpeRatio(df) ==
    IF df.std > 0 THEN (Sqrt252 * (df.mean - RiskFreeDaily)) \div df.std ELSE 0

\* min(len(returns), len(spy_returns))
MinLen(df, spy) ==
    IF NumReturns(df) < spy.n THEN NumReturns(df) ELSE spy.n

\* len(returns.iloc[-min_len:]): -0 is 0, so a zero min_len slices the whole
\* series
AlignedLen(n, min_len) == IF min_len = 0 THEN n ELSE min_len

\* np.cov(aligned_returns, aligned_spy) raises ValueError on unequal lengths
CovRaises(df, spy) ==
    AlignedLen(NumReturns(df), MinLen(df, spy)) # AlignedLen(spy.n, MinLen(df, spy))

\* covariance / market_variance if market_variance > 0 else 1.0 (1e-2)
Beta(df, spy) ==
    IF AlignedLen(NumReturns(df), MinLen(df, spy)) > 0
    THEN IF spy.var > 0 THEN (df.cov * 100) \div spy.var ELSE 100
    ELSE 100

RiskEntry(df, spy) ==
    [sharpe |-> SharpeRatio(df), beta |-> Beta(df, spy), var_95 |-> df.p5,
     volatility |-> (df.std * Sqrt252) \div 100]

\* the body of the for loop of calculate_risk_metrics, on the accumulator
\* [ds, report, raised]
RiskOne(acc, ticker, spy) ==
    IF acc.raised \/ ~Has(acc.ds.portfolio, ticker) THEN acc
    ELSE LET df == Lookup(acc.ds.portfolio, ticker)
         IN  IF NumReturns(df) < MinReturns
             THEN [acc EXCEPT !.report = Append(@, <<"WARN", ticker, "Insufficient data">>)]
             ELSE IF AlignedLen(NumReturns(df), MinLen(df, spy)) > 0 /\ CovRaises(df, spy)
             THEN [acc EXCEPT !.raised = TRUE]
             ELSE [ds |-> [acc.ds EXCEPT !.risk_metrics = Put(@, ticker, RiskEntry(df, spy))],
                   report |-> Append(acc.report, <<"METRICS", ticker, RiskEntry(df, spy)>>),
                   raised |-> FALSE]

RECURSIVE RiskLoop(_, _, _, _)
RiskLoop(acc, ticker_list, spy, j) ==
    IF j > Len(ticker_list) THEN acc
    ELSE RiskLoop(RiskOne(acc, ticker_list[j], spy), ticker_list, spy, j + 1)

\* calculate_risk_metrics(tickers); tickers = <<>> stands for None and ""
calculate_risk_metrics(ds, tickers, spy) ==
    IF ds.portfolio = EmptyDict
    THEN Returned(ds, Text("Error: No portfolio data loaded. Fetch data first."))
    ELSE LET ticker_list ==
                 IF tickers # <<>> THEN TickerList(tickers) ELSE KeyList(ds.portfolio)
         IN  IF spy.kind = "raise"
             THEN Returned(ds, Text("Error: Could not fetch market benchmark (SPY)"))
             ELSE LET acc == RiskLoop([ds |-> ds, report |-> <<>>, raised |-> FALSE],
                                      ticker_list, spy, 1)
                  IN  IF acc.raised
                      THEN Raised(acc.ds, Text("ValueError"))
                      ELSE Returned(acc.ds,
                                    IF acc.report # <<>> THEN <<"RISK", acc.report>>
                                    ELSE Text("No metrics calculated"))

\* ensemble_pred[-1] = 0.7 * prophet_pred + 0.3 * lr_forecast
EnsemblePred(df, yhat) == (ProphetWeight * yhat + LinearWeight * df.lr) \div 10

\* ((predicted_price - current_price) / current_price) * 100, in 1e-2
ChangePct(current, predicted) == ((predicted - current) * 10000) \div current

\* ensemble_forecast(ticker, days)
ensemble_forecast(ds, ticker, days, prophet) ==
    IF ~Has(ds.portfolio, ticker)
    THEN Returned(ds, <<"Error:", ticker, "not loaded.">>)
    ELSE IF prophet.kind = "raise"
    THEN Raised(ds, Text("ProphetError"))
    ELSE LET df == Lookup(ds.portfolio, ticker)
             current_price == df.last
             predicted_price == EnsemblePred(df, prophet.yhat)
             change_pct == ChangePct(current_price, predicted_price)
         IN  Returned([ds EXCEPT !.forecasts =
                          Put(@, ticker, [current |-> current_price,
                                          predicted |-> predicted_price,
                                          change_pct |-> change_pct])],
                      <<"FORECAST", ticker, current_price, predicted_price, change_pct>>)

\* analyze_sentiment(ticker)
analyze_sentiment(ds, enabled, ticker, score) ==
    IF ~enabled THEN Returned(ds, Text("Sentiment Disabled"))
    ELSE LET label == IF score > 0 THEN "POSITIVE" ELSE "NEGATIVE"
         IN  Returned([ds EXCEPT !.sentiment =
                          Put(@, ticker, [score |-> score, label |-> label])],
                      <<"SENTIMENT", ticker, label, score>>)

\* (metrics['sharpe'] * 0.5) + (forecast.get('change_pct', 0) * 0.1), in 1e-3
Score(ds, ticker) ==
    SharpeWeight * Lookup(ds.risk_metrics, ticker).sharpe
    + ForecastWeight * (IF Has(ds.forecasts, ticker)
                        THEN Lookup(ds.forecasts, ticker).change_pct ELSE 0)

\* ranking = [(ticker, score) for ticker in risk_metrics]
Ranking(ds) ==
    [j \in 1..Len(ds.risk_metrics) |->
        [t |-> ds.risk_metrics[j].k, s |-> Score(ds, ds.risk_metrics[j].k)]]

\* a descending sort that puts an element before the elements of equal score
RECURSIVE InsertDescBeforeEqual(_, _)
InsertDescBeforeEqual(sorted, e) ==
    IF sorted = <<>> THEN <<e>>
    ELSE IF Head(sorted).s > e.s
    THEN <<Head(sorted)>> \o InsertDescBeforeEqual(Tail(sorted), e)
    ELSE <<e>> \o sorted

\* list.sort(key=score, reverse=True): stable, so an element goes after the
\* elements already placed whose score is not smaller
RECURSIVE InsertDesc(_, _)
InsertDesc(sorted, e) ==
    IF sorted = <<>> THEN <<e>>
    ELSE IF Head(sorted).s >= e.s THEN <<Head(sorted)>> \o InsertDesc(Tail(sorted), e)
    ELSE <<e>> \o sorted

RECURSIVE SortDescFrom(_, _, _)
SortDescFrom(sorted, xs, j) ==
    IF j > Len(xs) THEN sorted ELSE SortDescFrom(InsertDesc(sorted, xs[j]), xs, j + 1)

SortDesc(xs) == SortDescFrom(<<>>, xs, 1)

\* f"{s:.2f}": a score in 1e-3 rounded to 1e-2
Fmt2(s) == (s + 5) \div 10

\* compare_portfolio()
compare_portfolio(ds) ==
    IF ds.risk_metrics = EmptyDict
    THEN Returned(ds, Text("Run risk analysis first."))
    ELSE LET ranking == SortDesc(Ranking(ds))
         IN  Returned(ds,
                 <<"PORTFOLIO RANKING",
                   [j \in 1..Len(ranking) |-> <<j, ranking[j].t, Fmt2(ranking[j].s)>>]>>)

\* ------------------------------------------------------------- the inputs
\* the entries a `tickers` argument is made of
RawTickers == {<<" ", "a">>, <<"B">>}

\* the comma-separated lists of n entries
RECURSIVE TickerStrings(_)
TickerStrings(n) ==
    IF n = 1 THEN RawTickers
    ELSE {s \o <<",">> \o t : s \in TickerStrings(n - 1), t \in RawTickers}

TickerInputs == UNION {TickerStrings(n) : n \in 1..MaxTickers}

\* the tool calls the language model requests in Autonomous mode
AutoCalls ==
    {[func |-> "fetch_portfolio_data", tickers |-> <<"B">>, ticker |-> <<>>],
     [func |-> "ensemble_forecast", tickers |-> <<>>, ticker |-> <<"B">>],
     [func |-> "compare_portfolio", tickers |-> <<>>, ticker |-> <<>>]}

NoCall == [func |-> "none", tickers |-> <<>>, ticker |-> <<>>]

\* the invocations of the agent that may be in flight
Invocations == {1}

\* -------------------------------------------------------------- the state
VARIABLES
    ENABLE_SENTIMENT,   \* config.ENABLE_SENTIMENT
    objects,            \* the dict objects DATA_STATE has named: id -> value
    tools_DATA_STATE,   \* the object tools.DATA_STATE names
    agents_DATA_STATE,  \* the object agents.DATA_STATE names (bound at import)
    pc,                 \* where each invocation is
    call,               \* its arguments: mode, tickers, include_sentiment
    steps,              \* run_manual's local list `steps` and the loop position
    results,            \* the dict `results` / `result` being built and returned
    graph,              \* the run of self.app: next node, supersteps, pending call
    rounds,             \* supersteps executed by the invocation, both runs
    written,            \* <<mapping, key>> of the entries the invocation stored
    stale               \* whether entries were left when the invocation began

vars ==
    <<ENABLE_SENTIMENT, objects, tools_DATA_STATE, agents_DATA_STATE, pc, call,
      steps, results, graph, rounds, written, stale>>

\* the dict the tools read and write
DATA_STATE == objects[tools_DATA_STATE]

NoArgs == [mode |-> "none", tickers |-> <<>>, include_sentiment |-> FALSE]

\* no run of the graph; `last` is the content of messages[-1]
NoGraph == [node |-> "none", step |-> 0, pending |-> NoCall, calls |-> 0, last |-> <<>>]

\* {"steps": [], "final_response": "", "data_state": {}}; data_state holds the
\* id of the dict object it names, -1 for the literal {}
NewResults ==
    [steps |-> <<>>, final_response |-> <<>>, data_state |-> -1,
     synthesis_mode |-> "unset"]

Init ==
    /\ ENABLE_SENTIMENT \in BOOLEAN
    /\ objects = [o \in {0, 1} |-> EmptyState]
    /\ tools_DATA_STATE = 0
    /\ agents_DATA_STATE = 0
    /\ pc = [i \in Invocations |-> "idle"]
    /\ call = [i \in Invocations |-> NoArgs]
    /\ steps = [i \in Invocations |-> [list |-> <<>>, next |-> 1]]
    /\ results = [i \in Invocations |-> NewResults]
    /\ graph = [i \in Invocations |-> NoGraph]
    /\ rounds = [i \in Invocations |-> 0]
    /\ written = [i \in Invocations |-> {}]
    /\ stale = [i \in Invocations |-> FALSE]

\* ------------------------------------------------------- shared helpers
Busy(i) == pc[i] # "idle"

Mappings == {"portfolio", "forecasts", "risk_metrics", "sentiment"}

AllKeys(ds) ==
    Keys(ds.portfolio) \cup Keys(ds.forecasts) \cup Keys(ds.risk_metrics)
    \cup Keys(ds.sentiment)

\* the entries <<mapping, key>> a tool stored: those of new that old lacks or
\* holds with another value
Stored(old, new) ==
    {e \in Mappings \X AllKeys(new) :
        /\ Has(new[e[1]], e[2])
        /\ \/ ~Has(old[e[1]], e[2])
           \/ Lookup(old[e[1]], e[2]) # Lookup(new[e[1]], e[2])}

\* the call reset_state() at the head of run_autonomous and run_manual: the
\* name tools.DATA_STATE moves to a new object, agents.DATA_STATE does not
ResetState(i) ==
    /\ tools_DATA_STATE' = 1
    /\ objects' = [objects EXCEPT ![1] = reset_state(DATA_STATE)]
    /\ written' = [written EXCEPT ![i] = {}]
    /\ stale' = [stale EXCEPT ![i] = DATA_STATE # EmptyState]
    /\ UNCHANGED <<ENABLE_SENTIMENT, agents_DATA_STATE>>

\* a tool has run on DATA_STATE and left ds
ToolWrites(i, ds) ==
    /\ objects' = [objects EXCEPT ![tools_DATA_STATE] = ds]
    /\ written' = [written EXCEPT ![i] = @ \cup Stored(DATA_STATE, ds)]
    /\ UNCHANGED <<ENABLE_SENTIMENT, tools_DATA_STATE, agents_DATA_STATE, stale>>

\* func.invoke(args) / the tool node running one tool call: every way the
\* call can end on the dict ds, over what the environment does
Invoke(c, ds, days) ==
    CASE c.func = "fetch_portfolio_data" ->
            {fetch_portfolio_data(ds, c.tickers, outs) :
                outs \in [1..Len(Split(c.tickers)) -> FetchOutcomes]}
      [] c.func = "calculate_risk_metrics" ->
            {calculate_risk_metrics(ds, c.tickers, spy) : spy \in SpyOutcomes}
      [] c.func = "ensemble_forecast" ->
            {ensemble_forecast(ds, c.ticker, days, prophet) : prophet \in ProphetOutcomes}
      [] c.func = "analyze_sentiment" ->
            {analyze_sentiment(ds, ENABLE_SENTIMENT, c.ticker, score) :
                score \in SentimentScores}
      [] c.func = "compare_portfolio" -> {compare_portfolio(ds)}

\* ----------------------------------------------------- agents.py: Manual
\* for t in tickers.split(','): steps.append((f"<label> {t.strip()}", func, ...))
PerTicker(label, func, tickers) ==
    LET parts == Split(tickers)
    IN  [j \in 1..Len(parts) |->
            [name |-> <<label, Strip(parts[j])>>, func |-> func,
             tickers |-> <<>>, ticker |-> Strip(parts[j])]]

\* run_manual queueing the sentiment steps on include_sentiment alone
PipelineIgnoringConfig(tickers, include_sentiment, enabled) ==
    << [name |-> <<"Fetching Data">>, func |-> "fetch_portfolio_data",
        tickers |-> tickers, ticker |-> <<>>],
       [name |-> <<"Risk Analysis">>, func |-> "calculate_risk_metrics",
        tickers |-> tickers, ticker |-> <<>>] >>
    \o PerTicker("Forecasting", "ensemble_forecast", tickers)
    \o (IF include_sentiment
        THEN PerTicker("Sentiment", "analyze_sentiment", tickers) ELSE <<>>)
    \o << [name |-> <<"Portfolio Ranking">>, func |-> "compare_portfolio",
           tickers |-> <<>>, ticker |-> <<>>] >>

\* the list `steps` of run_manual
Pipeline(tickers, include_sentiment, enabled) ==
    << [name |-> <<"Fetching Data">>, func |-> "fetch_portfolio_data",
        tickers |-> tickers, ticker |-> <<>>],
       [name |-> <<"Risk Analysis">>, func |-> "calculate_risk_metrics",
        tickers |-> tickers, ticker |-> <<>>] >>
    \o PerTicker("Forecasting", "ensemble_forecast", tickers)
    \o (IF include_sentiment /\ enabled
        THEN PerTicker("Sentiment", "analyze_sentiment", tickers) ELSE <<>>)
    \o << [name |-> <<"Portfolio Ranking">>, func |-> "compare_portfolio",
           tickers |-> <<>>, ticker |-> <<>>] >>

\* run_manual up to the loop. run_manual reads nothing that tells whether
\* run_hybrid called it, so the caller is settled when it returns.
RunManualWith(i, inputs, flags) ==
    /\ pc[i] = "idle"
    /\ \E tickers \in inputs, include_sentiment \in flags :
          /\ call' = [call EXCEPT ![i] = [mode |-> "manual", tickers |-> tickers,
                                          include_sentiment |-> include_sentiment]]
          /\ steps' = [steps EXCEPT ![i] =
                          [list |-> Pipeline(tickers, include_sentiment, ENABLE_SENTIMENT),
                           next |-> 1]]
    /\ ResetState(i)
    /\ results' = [results EXCEPT ![i] = NewResults]
    /\ pc' = [pc EXCEPT ![i] = "manual"]
    /\ graph' = [graph EXCEPT ![i] = NoGraph]
    /\ rounds' = [rounds EXCEPT ![i] = 0]

\* run_manual called with any of the ticker lists and either sentiment flag
RunManualBegin(i) == RunManualWith(i, TickerInputs, BOOLEAN)

\* the error strings of the tools, by their leading text
IsErrorString(val) ==
    val[1] \in {"Error: No portfolio data loaded. Fetch data first.",
                "Error: Could not fetch market benchmark (SPY)", "Error:",
                "Run risk analysis first."}

\* a loop that leaves at the first error string
ManualStepStopsOnError(i, func) ==
    /\ pc[i] = "manual"
    /\ steps[i].next <= Len(steps[i].list)
    /\ LET cur == steps[i].list[steps[i].next]
       IN  /\ cur.func = func
           /\ \E r \in Invoke(cur, DATA_STATE, DefaultForecastDays) :
                 /\ ToolWrites(i, r.ds)
                 /\ IF r.raised
                    THEN /\ pc' = [pc EXCEPT ![i] = "raised"]
                         /\ results' = [results EXCEPT ![i] = NewResults]
                         /\ UNCHANGED steps
                    ELSE /\ results' = [results EXCEPT ![i].steps =
                                           Append(@, [step |-> cur.name, result |-> r.val])]
                         /\ steps' = [steps EXCEPT ![i].next =
                                         IF IsErrorString(r.val)
                                         THEN Len(steps[i].list) + 1 ELSE @ + 1]
                         /\ UNCHANGED pc
    /\ UNCHANGED <<call, graph, rounds>>

\* one turn of `for name, func, args in steps` whose tool is func
ManualStep(i, func) ==
    /\ pc[i] = "manual"
    /\ steps[i].next <= Len(steps[i].list)
    /\ LET cur == steps[i].list[steps[i].next]
       IN  /\ cur.func = func
           /\ \E r \in Invoke(cur, DATA_STATE, DefaultForecastDays) :
                 /\ ToolWrites(i, r.ds)
                 /\ IF r.raised
                    THEN /\ pc' = [pc EXCEPT ![i] = "raised"]
                         /\ results' = [results EXCEPT ![i] = NewResults]
                         /\ UNCHANGED steps
                    ELSE /\ results' = [results EXCEPT ![i].steps =
                                           Append(@, [step |-> cur.name, result |-> r.val])]
                         /\ steps' = [steps EXCEPT ![i].next = @ + 1]
                         /\ UNCHANGED pc
    /\ UNCHANGED <<call, graph, rounds>>

ManualFetch(i) == ManualStep(i, "fetch_portfolio_data")

ManualRisk(i) == ManualStep(i, "calculate_risk_metrics")

ManualForecast(i) == ManualStep(i, "ensemble_forecast")

ManualSentiment(i) == ManualStep(i, "analyze_sentiment")

ManualRanking(i) == ManualStep(i, "compare_portfolio")

\* the tail of run_manual: final_response, data_state, return to the caller,
\* which is the application (mode "manual") or run_hybrid (mode "hybrid")
RunManualEnd(i) ==
    /\ pc[i] = "manual"
    /\ steps[i].next > Len(steps[i].list)
    /\ results' = [results EXCEPT
                      ![i].final_response = results[i].steps[Len(results[i].steps)].result,
                      ![i].data_state = agents_DATA_STATE]
    /\ \E mode \in {"manual", "hybrid"} :
          /\ call' = [call EXCEPT ![i].mode = mode]
          /\ pc' = [pc EXCEPT ![i] = IF mode = "hybrid" THEN "synthesis" ELSE "returned"]
    /\ UNCHANGED <<ENABLE_SENTIMENT, objects, tools_DATA_STATE, agents_DATA_STATE,
                   steps, graph, rounds, written, stale>>

\* ----------------------------------------------------- agents.py: Hybrid
\* a prompt listing the steps last to first
SynthesisPromptReversed(log) ==
    <<"You are a Senior Financial Analyst.",
      [j \in 1..Len(log) |-> <<log[Len(log) + 1 - j].step, log[Len(log) + 1 - j].result>>]>>

\* synthesis_prompt: the fixed instructions and the lines "step: result"
SynthesisPrompt(log) ==
    <<"You are a Senior Financial Analyst.",
      [j \in 1..Len(log) |-> <<log[j].step, log[j].result>>]>>

\* what self.llm.invoke(prompt) does: raises, or answers from the prompt
LlmOutcomes(prompt) ==
    {[raised |-> TRUE, content |-> Text("ResourceExhausted")],
     [raised |-> FALSE, content |-> <<"Executive Summary", prompt>>]}

\* run_hybrid handing back the Manual result when the generation call fails
RunHybridSynthesisFallsBack(i) ==
    /\ pc[i] = "synthesis"
    /\ \E synthesis \in LlmOutcomes(SynthesisPrompt(results[i].steps)) :
          IF synthesis.raised
          THEN /\ pc' = [pc EXCEPT ![i] = "returned"]
               /\ UNCHANGED results
          ELSE /\ pc' = [pc EXCEPT ![i] = "returned"]
               /\ results' = [results EXCEPT
                                 ![i].final_response = synthesis.content,
                                 ![i].synthesis_mode = "hybrid"]
    /\ UNCHANGED <<ENABLE_SENTIMENT, objects, tools_DATA_STATE, agents_DATA_STATE,
                   call, steps, graph, rounds, written, stale>>

\* run_hybrid after run_manual has returned
RunHybridSynthesis(i) ==
    /\ pc[i] = "synthesis"
    /\ \E synthesis \in LlmOutcomes(SynthesisPrompt(results[i].steps)) :
          IF synthesis.raised
          THEN /\ pc' = [pc EXCEPT ![i] = "raised"]
               /\ results' = [results EXCEPT ![i] = NewResults]
          ELSE /\ pc' = [pc EXCEPT ![i] = "returned"]
               /\ results' = [results EXCEPT
                                 ![i].final_response = synthesis.content,
                                 ![i].synthesis_mode = "hybrid"]
    /\ UNCHANGED <<ENABLE_SENTIMENT, objects, tools_DATA_STATE, agents_DATA_STATE,
                   call, steps, graph, rounds, written, stale>>

\* ------------------------------------------------- agents.py: Autonomous
\* run_autonomous up to the try block
RunAutonomousBegin(i) ==
    /\ pc[i] = "idle"
    /\ ResetState(i)
    /\ call' = [call EXCEPT ![i] = [mode |-> "autonomous", tickers |-> <<>>,
                                    include_sentiment |-> FALSE]]
    /\ steps' = [steps EXCEPT ![i] = [list |-> <<>>, next |-> 1]]
    /\ results' = [results EXCEPT ![i] = NewResults]
    /\ pc' = [pc EXCEPT ![i] = "stream"]
    /\ graph' = [graph EXCEPT ![i] =
                    [node |-> "agent", step |-> 0, pending |-> NoCall, calls |-> 0,
                     last |-> <<>>]]
    /\ rounds' = [rounds EXCEPT ![i] = 0]

\* the recursion limit of the run of the graph in progress
Limit(i) == IF pc[i] = "stream" THEN RecursionLimit ELSE DefaultRecursionLimit

\* str(content)[:300] + "..." if content else "[Data Processed]"
StepResult(content) ==
    IF content = <<>> THEN Text("[Data Processed]")
    ELSE <<"TRUNCATED", Prefix(content, StepTruncate), "...">>

\* the body of `for event in self.app.stream(...)` for the update of node key;
\* self.app.invoke yields no events
Logged(i, key, content) ==
    IF pc[i] = "stream"
    THEN [results[i] EXCEPT !.steps =
             Append(@, [step |-> IF key = "tools" THEN <<"Tool Output">> ELSE <<"Agent">>,
                        result |-> StepResult(content)])]
    ELSE results[i]

\* an except branch that starts the step log over
CriticalErrorLosesLog(i, e) ==
    /\ results' = [results EXCEPT
                      ![i].final_response = <<"Autonomous Agent Error:", e>>,
                      ![i].steps = <<[step |-> <<"Critical Error">>, result |-> e]>>]
    /\ pc' = [pc EXCEPT ![i] = "returned"]
    /\ graph' = [graph EXCEPT ![i] = NoGraph]

\* the except branch of run_autonomous
CriticalError(i, e) ==
    /\ results' = [results EXCEPT
                      ![i].final_response = <<"Autonomous Agent Error:", e>>,
                      ![i].steps = Append(@, [step |-> <<"Critical Error">>, result |-> e])]
    /\ pc' = [pc EXCEPT ![i] = "returned"]
    /\ graph' = [graph EXCEPT ![i] = NoGraph]

\* the tool calls the model may ask for next: any of AutoCalls for the first
\* MaxAutoCalls requests of the invocation, compare_portfolio again after them
Requests(i) ==
    IF graph[i].calls < MaxAutoCalls THEN AutoCalls
    ELSE {c \in AutoCalls : c.func = "compare_portfolio"}

\* what self.llm_with_tools.invoke(messages) does: raises, asks for a tool
\* call (with empty content) or answers
AgentOutcomes(i) ==
    {[kind |-> "raise", content |-> Text("ResourceExhausted"), tool_call |-> NoCall],
     [kind |-> "final", content |-> Text("Executive Summary"), tool_call |-> NoCall]}
    \cup {[kind |-> "call", content |-> <<>>, tool_call |-> c] : c \in Requests(i)}

\* agent_node, the conditional edge tools_condition and, when the graph ends,
\* what run_autonomous does next
AgentNode(i) ==
    /\ pc[i] \in {"stream", "invoke"}
    /\ graph[i].node = "agent"
    /\ graph[i].step < Limit(i)
    /\ \E m \in AgentOutcomes(i) :
          CASE m.kind = "raise" ->
                  /\ CriticalError(i, m.content)
                  /\ UNCHANGED rounds
            [] m.kind = "call" ->
                  /\ results' = [results EXCEPT ![i] = Logged(i, "agent", m.content)]
                  /\ graph' = [graph EXCEPT ![i] =
                                  [node |-> "tools", step |-> @.step + 1,
                                   pending |-> m.tool_call,
                                   calls |-> IF @.calls < MaxAutoCalls
                                             THEN @.calls + 1 ELSE @.calls,
                                   last |-> m.content]]
                  /\ rounds' = [rounds EXCEPT ![i] = @ + 1]
                  /\ UNCHANGED pc
            [] m.kind = "final" /\ pc[i] = "stream" ->
                  /\ results' = [results EXCEPT ![i] = Logged(i, "agent", m.content)]
                  /\ graph' = [graph EXCEPT ![i] =
                                  [node |-> "agent", step |-> 0, pending |-> NoCall,
                                   calls |-> @.calls, last |-> <<>>]]
                  /\ rounds' = [rounds EXCEPT ![i] = @ + 1]
                  /\ pc' = [pc EXCEPT ![i] = "invoke"]
            [] m.kind = "final" /\ pc[i] = "invoke" ->
                  /\ results' = [results EXCEPT
                                    ![i].final_response = m.content,
                                    ![i].data_state = agents_DATA_STATE]
                  /\ graph' = [graph EXCEPT ![i] = NoGraph]
                  /\ rounds' = [rounds EXCEPT ![i] = @ + 1]
                  /\ pc' = [pc EXCEPT ![i] = "returned"]
    /\ UNCHANGED <<ENABLE_SENTIMENT, objects, tools_DATA_STATE, agents_DATA_STATE,
                   call, steps, written, stale>>

\* the prebuilt tool node running the pending tool call; an exception of the
\* tool leaves the graph or is turned into the tool message, by the library
\* version
ToolNode(i) ==
    /\ pc[i] \in {"stream", "invoke"}
    /\ graph[i].node = "tools"
    /\ graph[i].step < Limit(i)
    /\ \E r \in Invoke(graph[i].pending, DATA_STATE, DefaultForecastDays) :
          /\ ToolWrites(i, r.ds)
          /\ \E handled \in BOOLEAN :
                IF r.raised /\ ~handled
                THEN /\ CriticalError(i, r.val)
                     /\ UNCHANGED rounds
                ELSE /\ results' = [results EXCEPT ![i] =
                                       Logged(i, "tools",
                                              IF r.raised THEN <<"Error:", r.val>> ELSE r.val)]
                     /\ graph' = [graph EXCEPT ![i] =
                                     [node |-> "agent", step |-> @.step + 1,
                                      pending |-> NoCall, calls |-> @.calls,
                                      last |-> IF r.raised THEN <<"Error:", r.val>>
                                               ELSE r.val]]
                     /\ rounds' = [rounds EXCEPT ![i] = @ + 1]
                     /\ UNCHANGED pc
    /\ UNCHANGED <<call, steps>>

\* the graph reaches its recursion limit without ending: GraphRecursionError
RecursionLimitReached(i) ==
    /\ pc[i] \in {"stream", "invoke"}
    /\ graph[i].step = Limit(i)
    /\ CriticalError(i, Text("GraphRecursionError"))
    /\ UNCHANGED <<ENABLE_SENTIMENT, objects, tools_DATA_STATE, agents_DATA_STATE,
                   call, steps, rounds, written, stale>>

\* ------------------------------------------------------------------ app.py
\* the script run that called the agent ends, after showing the results or
\* the error: its locals are gone, DATA_STATE stays
ScriptRunEnds(i) ==
    /\ pc[i] \in {"returned", "raised"}
    /\ pc' = [pc EXCEPT ![i] = "idle"]
    /\ call' = [call EXCEPT ![i] = NoArgs]
    /\ steps' = [steps EXCEPT ![i] = [list |-> <<>>, next |-> 1]]
    /\ results' = [results EXCEPT ![i] = NewResults]
    /\ rounds' = [rounds EXCEPT ![i] = 0]
    /\ written' = [written EXCEPT ![i] = {}]
    /\ stale' = [stale EXCEPT ![i] = FALSE]
    /\ UNCHANGED <<ENABLE_SENTIMENT, objects, tools_DATA_STATE, agents_DATA_STATE, graph>>

\* the "Clear System Memory" button of the System State tab
ClearSystemMemory ==
    /\ \A i \in Invocations : pc[i] = "idle"
    /\ DATA_STATE # EmptyState
    /\ tools_DATA_STATE' = 1
    /\ objects' = [objects EXCEPT ![1] = reset_state(DATA_STATE)]
    /\ UNCHANGED <<ENABLE_SENTIMENT, agents_DATA_STATE, pc, call, steps, results,
                   graph, rounds, written, stale>>

\* ------------------------------------------------------ the specification
\* app.py runs one invocation at a time
Sequential == \A j \in Invocations : ~Busy(j)

Next ==
    \/ ClearSystemMemory
    \/ \E i \in Invocations :
        \/ Sequential /\ RunManualBegin(i)
        \/ ManualFetch(i)
        \/ ManualRisk(i)
        \/ ManualForecast(i)
        \/ ManualSentiment(i)
        \/ ManualRanking(i)
        \/ RunManualEnd(i)
        \/ RunHybridSynthesis(i)
        \/ Sequential /\ RunAutonomousBegin(i)
        \/ AgentNode(i)
        \/ ToolNode(i)
        \/ RecursionLimitReached(i)
        \/ ScriptRunEnds(i)

Spec == Init /\ [][Next]_vars

\* Two sessions of the application served by one process: `agent` and
\* tools.DATA_STATE are module globals, so both sessions' invocations run on
\* the same state. Each session makes one Manual or Hybrid invocation over
\* one ticker, with the sentiment module disabled; a step of one invocation
\* may run between any two steps of the other.
Overlapping == {1, 2}

OverlapInputs == TickerStrings(1)

OverlapInit ==
    /\ ENABLE_SENTIMENT = FALSE
    /\ objects = [o \in {0, 1} |-> EmptyState]
    /\ tools_DATA_STATE = 0
    /\ agents_DATA_STATE = 0
    /\ pc = [i \in Overlapping |-> "idle"]
    /\ call = [i \in Overlapping |-> NoArgs]
    /\ steps = [i \in Overlapping |-> [list |-> <<>>, next |-> 1]]
    /\ results = [i \in Overlapping |-> NewResults]
    /\ graph = [i \in Overlapping |-> NoGraph]
    /\ rounds = [i \in Overlapping |-> 0]
    /\ written = [i \in Overlapping |-> {}]
    /\ stale = [i \in Overlapping |-> FALSE]

OverlapNext ==
    \E i \in Overlapping :
        \/ RunManualWith(i, OverlapInputs, {FALSE})
        \/ ManualFetch(i)
        \/ ManualRisk(i)
        \/ ManualForecast(i)
        \/ ManualRanking(i)
        \/ RunManualEnd(i)
        \/ RunHybridSynthesis(i)

Overlap == OverlapInit /\ [][OverlapNext]_vars

\* ------------------------------------------------------------ the claims
\* run_manual has returned its result (to run_hybrid when pc is "synthesis")
ManualReturned(i) ==
    \/ pc[i] = "returned" /\ call[i].mode = "manual"
    \/ pc[i] = "synthesis"

\* the number of comma-separated entries of a tickers string
NumTickers(tickers) == Cardinality({j \in 1..Len(tickers) : tickers[j] = ","}) + 1

\* the j-th comma-separated entry, trimmed
Entry(tickers, j) == Strip(Split(tickers)[j])

\* whether the run logs sentiment steps
WithSentiment(i) == call[i].include_sentiment /\ ENABLE_SENTIMENT

\* C1: a Manual run in which no step raises logs exactly Fetch, Risk, one
\* Forecast per input ticker in input order, one Sentiment per input ticker in
\* input order iff sentiment is requested and enabled, and Ranking last; each
\* entry holds the result of its own call, and final_response is the result of
\* the last entry.
C1_ManualStepLog ==
    \A i \in Invocations :
        ManualReturned(i) =>
            LET log == results[i].steps
                n == NumTickers(call[i].tickers)
                m == IF WithSentiment(i) THEN n ELSE 0
            IN  /\ Len(log) = 2 + n + m + 1
                /\ log[1].step = <<"Fetching Data">>
                /\ log[1].result[1] = "FETCH"
                /\ log[2].step = <<"Risk Analysis">>
                /\ \A j \in 1..n :
                      /\ log[2 + j].step = <<"Forecasting", Entry(call[i].tickers, j)>>
                      /\ log[2 + j].result[1] \in {"FORECAST", "Error:"}
                      /\ log[2 + j].result[2] = Entry(call[i].tickers, j)
                /\ \A j \in 1..m :
                      /\ log[2 + n + j].step = <<"Sentiment", Entry(call[i].tickers, j)>>
                      /\ log[2 + n + j].result[1] = "SENTIMENT"
                      /\ log[2 + n + j].result[2] = Entry(call[i].tickers, j)
                /\ log[Len(log)].step = <<"Portfolio Ranking">>
                /\ log[Len(log)].result[1] \in {"PORTFOLIO RANKING", "Run risk analysis first."}
                /\ results[i].final_response = log[Len(log)].result

\* a Manual run over two tickers with sentiment steps has returned
C1_Witness ==
    \E i \in Invocations :
        /\ pc[i] = "returned" /\ call[i].mode = "manual"
        /\ NumTickers(call[i].tickers) = 2
        /\ WithSentiment(i)
        /\ Len(results[i].steps) = 7

\* the dict a result's data_state names
ResultData(i) ==
    IF results[i].data_state = -1 THEN EmptyState ELSE objects[results[i].data_state]

\* C2: the data_state of the result returned by a Manual, Hybrid or successful
\* Autonomous invocation holds exactly the entries the steps of the invocation
\* stored.
C2_DataStateSnapshot ==
    \A i \in Invocations :
        pc[i] = "returned" /\ results[i].data_state # -1 =>
            /\ ResultData(i) = DATA_STATE
            /\ \A m \in Mappings : \A k \in AllKeys(DATA_STATE) :
                  <<m, k>> \in written[i] <=> Has(ResultData(i)[m], k)

\* C3: every key of risk_metrics, forecasts and sentiment is a key of
\* portfolio.
C3_KeysInPortfolio ==
    Keys(DATA_STATE.risk_metrics) \cup Keys(DATA_STATE.forecasts)
        \cup Keys(DATA_STATE.sentiment) \subseteq Keys(DATA_STATE.portfolio)

\* the invocation is about to run its first step
AtFirstStep(i) ==
    \/ pc[i] = "manual" /\ steps[i].next = 1
    \/ pc[i] = "stream" /\ rounds[i] = 0

\* C4: in sequential invocations of any modes the state the steps use is empty
\* in all four mappings when the first step of an invocation starts, and from
\* then on holds only entries stored during that invocation.
C4_FreshState ==
    \A i \in Invocations :
        /\ AtFirstStep(i) => DATA_STATE = EmptyState
        /\ pc[i] # "idle" =>
              \A m \in Mappings : \A k \in Keys(DATA_STATE[m]) : <<m, k>> \in written[i]

\* an invocation that began on a state holding entries has returned, and has
\* stored entries of its own
C4_Witness ==
    \E i \in Invocations :
        /\ stale[i]
        /\ pc[i] = "returned"
        /\ DATA_STATE.portfolio # EmptyDict

\* the invocation is at a call of fetch_portfolio_data
FetchAt(i) ==
    \/ /\ pc[i] = "manual"
       /\ steps[i].next <= Len(steps[i].list)
       /\ steps[i].list[steps[i].next].func = "fetch_portfolio_data"
    \/ /\ pc[i] \in {"stream", "invoke"}
       /\ graph[i].node = "tools"
       /\ graph[i].step < Limit(i)
       /\ graph[i].pending.func = "fetch_portfolio_data"

\* the tickers argument of that call
FetchArg(i) ==
    IF pc[i] = "manual" THEN steps[i].list[steps[i].next].tickers
    ELSE graph[i].pending.tickers

\* the status lines of a Fetch result
Lines(val) == val[2]

\* the tickers of the success lines
Fetched(lines) == {lines[j][2] : j \in {k \in 1..Len(lines) : lines[k][1] = "OK"}}

\* C5 (as amended): a Fetch call never raises and returns one status line per
\* input ticker, in input order, each a success or a failure line; after it
\* portfolio holds the tickers it held before and those with at least one
\* success line, so a failed ticker does not keep later tickers from being
\* fetched.
C5_FetchLines ==
    [][\A i \in Invocations :
          FetchAt(i) /\ (pc'[i] # pc[i] \/ results'[i] # results[i] \/ graph'[i] # graph[i]) =>
              LET val == IF pc[i] = "manual"
                         THEN results'[i].steps[Len(results'[i].steps)].result
                         ELSE graph'[i].last
                  arg == FetchArg(i)
              IN  /\ pc'[i] = pc[i]
                  /\ val[1] = "FETCH"
                  /\ Len(Lines(val)) = NumTickers(arg)
                  /\ \A j \in 1..Len(Lines(val)) :
                        /\ Lines(val)[j][1] \in {"OK", "FAIL"}
                        /\ Lines(val)[j][2] = Upper(Entry(arg, j))
                  /\ Keys(objects'[tools_DATA_STATE'].portfolio)
                        = Keys(DATA_STATE.portfolio) \cup Fetched(Lines(val))]_vars

\* the Fetch step of a Manual run has returned a failure line followed by a
\* success line
C5_Witness ==
    \E i \in Invocations :
        /\ pc[i] = "manual"
        /\ Len(results[i].steps) = 1
        /\ Len(Lines(results[i].steps[1].result)) = 2
        /\ Lines(results[i].steps[1].result)[1][1] = "FAIL"
        /\ Lines(results[i].steps[1].result)[2][1] = "OK"
        /\ Has(DATA_STATE.portfolio, Lines(results[i].steps[1].result)[2][2])

\* C5 (as stated): after the Fetch step of a Manual run a ticker is in
\* portfolio if and only if its status line is a success line.
C5_StoredIffSuccessLine ==
    \A i \in Invocations :
        pc[i] = "manual" /\ Len(results[i].steps) >= 1 =>
            LET lines == Lines(results[i].steps[1].result)
            IN  \A j \in 1..Len(lines) :
                   Has(DATA_STATE.portfolio, lines[j][2]) <=> lines[j][1] = "OK"

\* C6: an Autonomous invocation executes at most 15 rounds of the tool-calling
\* loop in total.
C6_RoundsWithinLimit ==
    \A i \in Invocations : rounds[i] <= RecursionLimit

\* C7: in Autonomous mode no exception reaches the caller; an invocation
\* returns either normally or with the warning-prefixed exception message as
\* final_response and a step log made of the entries logged before the failure
\* followed by the one "Critical Error" entry.
C7_ExceptionsContained ==
    [][\A i \in Invocations :
          pc[i] \in {"stream", "invoke"} /\ pc'[i] \notin {"stream", "invoke"} =>
              /\ pc'[i] = "returned"
              /\ \A j \in 1..Len(results[i].steps) :
                    results[i].steps[j].step # <<"Critical Error">>
              /\ \/ /\ results'[i].data_state = agents_DATA_STATE
                    /\ results'[i].steps = results[i].steps
                    /\ results'[i].final_response = Text("Executive Summary")
                 \/ /\ results'[i].data_state = -1
                    /\ Len(results'[i].steps) = Len(results[i].steps) + 1
                    /\ SubSeq(results'[i].steps, 1, Len(results[i].steps)) = results[i].steps
                    /\ results'[i].steps[Len(results'[i].steps)].step = <<"Critical Error">>
                    /\ results'[i].final_response =
                          <<"Autonomous Agent Error:",
                            results'[i].steps[Len(results'[i].steps)].result>>]_vars

\* an Autonomous invocation has returned after a tool raised: the log keeps
\* the earlier entries and ends with the Critical Error entry
C7_Witness ==
    \E i \in Invocations :
        /\ pc[i] = "returned" /\ call[i].mode = "autonomous"
        /\ Len(results[i].steps) >= 4
        /\ results[i].steps[Len(results[i].steps)] =
              [step |-> <<"Critical Error">>, result |-> Text("ProphetError")]
        /\ results[i].final_response = <<"Autonomous Agent Error:", Text("ProphetError")>>

\* C8: a Hybrid invocation whose generation call succeeds returns the Manual
\* result with final_response replaced by the text generated from a prompt
\* that lists every step result in step-log order, and with the hybrid tag;
\* the step log, which is that of one full Manual sequence, data_state and the
\* shared state are unchanged.
C8_HybridFrame ==
    [][\A i \in Invocations :
          pc[i] = "synthesis" /\ pc'[i] = "returned" =>
              /\ results'[i].steps = results[i].steps
              /\ Len(results[i].steps) =
                    3 + NumTickers(call[i].tickers)
                      + (IF WithSentiment(i) THEN NumTickers(call[i].tickers) ELSE 0)
              /\ results'[i].data_state = results[i].data_state
              /\ results'[i].synthesis_mode = "hybrid"
              /\ results[i].synthesis_mode = "unset"
              /\ results'[i].final_response[1] = "Executive Summary"
              /\ results'[i].final_response # results[i].final_response
              /\ LET lines == results'[i].final_response[2][2]
                 IN  /\ Len(lines) = Len(results[i].steps)
                     /\ \A j \in 1..Len(lines) :
                           lines[j] = <<results[i].steps[j].step, results[i].steps[j].result>>
              /\ objects' = objects]_vars

\* a Hybrid invocation over two tickers has returned the generated text
C8_Witness ==
    \E i \in Invocations :
        /\ pc[i] = "returned" /\ call[i].mode = "hybrid"
        /\ results[i].synthesis_mode = "hybrid"
        /\ NumTickers(call[i].tickers) = 2
        /\ results[i].final_response[1] = "Executive Summary"

\* the Ranking step of the Manual sequence has been logged
RankingLogged(i) ==
    /\ call[i].mode \in {"manual", "hybrid"}
    /\ pc[i] \in {"manual", "synthesis", "returned"}
    /\ Len(results[i].steps) > 0
    /\ Len(results[i].steps) = Len(steps[i].list)

\* the rows <<rank, ticker, score>> of the logged ranking report
Report(i) == results[i].steps[Len(results[i].steps)].result[2]

\* C9: with risk_metrics non-empty the ranking report lists exactly the
\* tickers of risk_metrics, each once, numbered from 1, by non-increasing
\* composite score recomputed from the stored risk_metrics and forecasts
\* (0 change without a forecast), tickers of equal score in insertion order.
C9_RankingOrder ==
    \A i \in Invocations :
        RankingLogged(i) /\ DATA_STATE.risk_metrics # EmptyDict =>
            /\ results[i].steps[Len(results[i].steps)].result[1] = "PORTFOLIO RANKING"
            /\ Len(Report(i)) = Len(DATA_STATE.risk_metrics)
            /\ {Report(i)[j][2] : j \in 1..Len(Report(i))} = Keys(DATA_STATE.risk_metrics)
            /\ \A j \in 1..Len(Report(i)) :
                  /\ Report(i)[j][1] = j
                  /\ Report(i)[j][3] = Fmt2(Score(DATA_STATE, Report(i)[j][2]))
            /\ \A j, k \in 1..Len(Report(i)) :
                  j < k =>
                     LET sj == Score(DATA_STATE, Report(i)[j][2])
                         sk == Score(DATA_STATE, Report(i)[k][2])
                     IN  /\ sj >= sk
                         /\ sj = sk => Get(DATA_STATE.risk_metrics, Report(i)[j][2])
                                          < Get(DATA_STATE.risk_metrics, Report(i)[k][2])

\* a logged report of two tickers that puts the ticker inserted second first
C9_Witness ==
    \E i \in Invocations :
        /\ RankingLogged(i)
        /\ Len(DATA_STATE.risk_metrics) = 2
        /\ Report(i)[1][2] = DATA_STATE.risk_metrics[2].k

\* every download of the Fetch result failed
AllFailed(val) == \A j \in 1..Len(Lines(val)) : Lines(val)[j][1] = "FAIL"

\* C10: in a Manual or Hybrid run a step that returns an error string does
\* not end the run: every step run so far is logged and a run that returns
\* has logged the whole sequence; when Fetch fails for every ticker, Risk,
\* every Forecast and Ranking return their error strings, risk_metrics and
\* forecasts stay empty and final_response is the Ranking error string.
C10_ErrorStringsDoNotHalt ==
    \A i \in Invocations :
        /\ pc[i] = "manual" => Len(results[i].steps) = steps[i].next - 1
        /\ ManualReturned(i) =>
              LET log == results[i].steps
                  n == NumTickers(call[i].tickers)
              IN  /\ Len(log) = 3 + n + (IF WithSentiment(i) THEN n ELSE 0)
                  /\ AllFailed(log[1].result) =>
                        /\ log[2].result =
                              Text("Error: No portfolio data loaded. Fetch data first.")
                        /\ \A j \in 1..n :
                              log[2 + j].result =
                                 <<"Error:", Entry(call[i].tickers, j), "not loaded.">>
                        /\ log[Len(log)].result = Text("Run risk analysis first.")
                        /\ results[i].final_response = Text("Run risk analysis first.")
                        /\ DATA_STATE.risk_metrics = EmptyDict
                        /\ DATA_STATE.forecasts = EmptyDict

\* a Manual run over two tickers whose downloads both failed has returned
C10_Witness ==
    \E i \in Invocations :
        /\ ManualReturned(i)
        /\ NumTickers(call[i].tickers) = 2
        /\ AllFailed(results[i].steps[1].result)
        /\ IsErrorString(results[i].final_response)

\* the step of the Manual sequence the invocation is at
Current(i) == steps[i].list[steps[i].next]

\* C11: in Manual and Hybrid mode an exception raised inside a step reaches
\* the caller: the invocation ends without a result, the steps after the
\* failing one never run and nothing runs again in its place; a step that is
\* logged is one that did not raise; Hybrid returns only with the generated
\* text, never with the Manual final_response; an Autonomous invocation never
\* ends by an exception.
C11_ExceptionsPropagate ==
    [][\A i \in Invocations :
          /\ pc'[i] = "raised" /\ pc[i] # "raised" =>
                /\ pc[i] \in {"manual", "synthesis"}
                /\ call[i].mode \in {"manual", "hybrid"}
                /\ results'[i] = NewResults
                /\ steps'[i] = steps[i]
          /\ pc[i] = "raised" =>
                /\ pc'[i] \in {"raised", "idle"}
                /\ results'[i] = NewResults
                /\ objects' = objects
                /\ tools_DATA_STATE' = tools_DATA_STATE
          /\ pc[i] = "manual" /\ pc'[i] = "manual" /\ results'[i] # results[i] =>
                /\ steps'[i].next = steps[i].next + 1
                /\ \E r \in Invoke(Current(i), DATA_STATE, DefaultForecastDays) :
                      /\ ~r.raised
                      /\ r.ds = objects'[tools_DATA_STATE']
                      /\ results'[i].steps =
                            Append(results[i].steps,
                                   [step |-> Current(i).name, result |-> r.val])
          /\ pc[i] = "synthesis" /\ pc'[i] = "returned" =>
                /\ results'[i].synthesis_mode = "hybrid"
                /\ results'[i].final_response[1] = "Executive Summary"
          /\ pc[i] \in {"stream", "invoke"} => pc'[i] # "raised"]_vars

\* the model fitting of the first of two Forecast steps raised after a
\* successful Fetch: the invocation has ended without a result and with the
\* later steps not run
C11_Witness ==
    \E i \in Invocations :
        /\ pc[i] = "raised"
        /\ call[i].mode = "manual"
        /\ steps[i].next = 3
        /\ Current(i).func = "ensemble_forecast"
        /\ Len(steps[i].list) >= 5
        /\ Has(DATA_STATE.portfolio, Current(i).ticker)
        /\ results[i] = NewResults

\* the invocation is at the Risk step of the Manual sequence
RiskAt(i) ==
    /\ pc[i] = "manual"
    /\ steps[i].next <= Len(steps[i].list)
    /\ Current(i).func = "calculate_risk_metrics"

\* the tickers the Risk step processes: those of its list that are in
\* portfolio with at least 30 return observations
Processed(ds, tickers) ==
    {t \in Keys(ds.portfolio) :
        /\ \E j \in 1..Len(TickerList(tickers)) : TickerList(tickers)[j] = t
        /\ NumReturns(Lookup(ds.portfolio, t)) >= MinReturns}

\* the downloads of the benchmark that give a return series
SpySeries == {spy \in SpyOutcomes : spy.kind = "series"}

\* C12: for every ticker the Risk step processes, the step does not raise and
\* stores the ticker's entry; the stored beta is 1.0 whenever the benchmark
\* variance is 0 or the aligned window min(len(returns), len(benchmark
\* returns)) is 0, and the stored sharpe is 0 whenever the ticker's return
\* standard deviation is 0.
C12_RiskFallbacks ==
    \A i \in Invocations :
        RiskAt(i) =>
            \A spy \in SpySeries :
                LET r == calculate_risk_metrics(DATA_STATE, Current(i).tickers, spy)
                IN  \A t \in Processed(DATA_STATE, Current(i).tickers) :
                       LET df == Lookup(DATA_STATE.portfolio, t)
                       IN  /\ ~r.raised
                           /\ Has(r.ds.risk_metrics, t)
                           /\ spy.var = 0 \/ MinLen(df, spy) = 0 =>
                                 Lookup(r.ds.risk_metrics, t).beta = 100
                           /\ df.std = 0 => Lookup(r.ds.risk_metrics, t).sharpe = 0

\* the invocation runs or has run the Manual sequence
InManualRun(i) ==
    /\ call[i].mode \in {"manual", "hybrid"}
    /\ pc[i] \in {"manual", "synthesis", "returned"}

\* C14: in a Manual run every step addresses a ticker by the uppercased,
\* trimmed symbol: for every input ticker whose Fetch line is a success line
\* the Forecast step does not return the not-loaded error, and every key of
\* forecasts and sentiment is an uppercased, trimmed symbol.
C14_UppercasedKeys ==
    \A i \in Invocations :
        InManualRun(i) =>
            /\ \A j \in 1..NumTickers(call[i].tickers) :
                  /\ Len(results[i].steps) >= 2 + j
                  /\ Lines(results[i].steps[1].result)[j][1] = "OK"
                  => results[i].steps[2 + j].result[1] # "Error:"
            /\ \A k \in Keys(DATA_STATE.forecasts) \cup Keys(DATA_STATE.sentiment) :
                  Upper(Strip(k)) = k

\* the state holds exactly the entries the invocation stored since its reset
Isolated(i) ==
    \A m \in Mappings :
        Keys(DATA_STATE[m]) = {e[2] : e \in {w \in written[i] : w[1] = m}}

\* the step taken is a step of the invocation
Stepped(i) ==
    \/ pc'[i] # pc[i]
    \/ steps'[i] # steps[i]
    \/ results'[i] # results[i]

\* C13: an invocation starts on a state holding nothing, and as long as only
\* its own steps run the state holds exactly what it stored: the entries an
\* invocation in flight reads stop being its own only by a step (the reset or
\* a tool's write) of another invocation overlapping it. Such an interleaving
\* exists (C13_Witness).
C13_OnlyOverlapInterferes ==
    [][\A i \in Overlapping :
          /\ pc[i] = "idle" /\ pc'[i] # "idle" => Isolated(i)'
          /\ Busy(i) /\ pc'[i] # "idle" /\ Isolated(i) /\ ~Isolated(i)' =>
                /\ ~Stepped(i)
                /\ \E j \in Overlapping \ {i} : Stepped(j) /\ Busy(j)']_vars

\* invocation 1's Fetch stored its ticker, the other invocation's reset
\* emptied the state, and invocation 1's Risk step returned the
\* empty-portfolio error
C13_Witness ==
    /\ pc[1] = "manual"
    /\ Len(results[1].steps) = 2
    /\ Lines(results[1].steps[1].result)[1][1] = "OK"
    /\ results[1].steps[2].result =
          Text("Error: No portfolio data loaded. Fetch data first.")
    /\ Busy(2)

====
